---- MODULE Spec2Model ----
(***************************************************************************)
(* A model of mardor's MarReader (src/src/mardor/reader.py): the lazily    *)
(* decompressed file object, the extract_entry generator, extract and      *)
(* verify.  The stream helpers of mardor.utils and mardor.signing are not  *)
(* part of reader.py; they are modelled from the specification's           *)
(* description of them.                                                    *)
(***************************************************************************)
EXTENDS Naturals, Integers, Sequences, FiniteSets, TLC

VARIABLES
    mardata,               \* self.mardata: the parsed archive description
    raw_data,              \* the bytes behind self._raw_fileobj
    raw_pos,               \* the position of self._raw_fileobj
    decompressed_fileobj,  \* self._decompressed_fileobj: None or a spool
    tempfiles,             \* the temporary files created so far, by id
    decompress_calls,      \* how many times decompress() has been entered
    accessor_calls,        \* how many of these entries the fileobj property made
    returned,              \* the objects the fileobj property has returned
    gens,                  \* the extract_entry generators handed to callers
    fs,                    \* the file system below the root
    disposed,              \* __exit__ has run
    last                   \* the outcome of the most recent call

vars == <<mardata, raw_data, raw_pos, decompressed_fileobj, tempfiles,
          decompress_calls, accessor_calls, returned, gens, fs, disposed, last>>

----------------------------------------------------------------------------
(* Bounds of the model. *)

\* bytes a single read() returns at most (BLOCK_SIZE of file_iter, scaled down)
BlockSize == 2
\* the longest index the parser hands over
MaxEntries == 2
\* the longest signature list the parser hands over
MaxSigs == 2
\* decompress() is entered at most this often in one behaviour
MaxDecompress == 2

----------------------------------------------------------------------------
(* Values. *)

\* Python's None where a file object is expected
None == [set |-> FALSE, id |-> 0, pos |-> 0, data |-> <<>>]

\* Decompression (reader.py 31-44)
Decompression == {"none", "auto", "bz2", "xz"}

\* SigningAlgo.SHA1, SigningAlgo.SHA384 and an id that is neither
SHA1 == "SHA1"
SHA384 == "SHA384"
OtherAlgo == "OTHER"

Min(a, b) == IF a < b THEN a ELSE b

Zeros(n) == [i \in 1..n |-> 0]

\* the n bytes of data that follow position pos (fewer at the end of data)
Slice(data, pos, n) == SubSeq(data, pos + 1, Min(pos + n, Len(data)))

RECURSIVE Concat(_)
Concat(blocks) ==
    IF blocks = <<>> THEN <<>> ELSE Head(blocks) \o Concat(Tail(blocks))

\* F applied to v: names a value that is used more than once
With(v, F(_)) == F(v)

\* one event of a call's trace
Ev(ev, i, data) == [ev |-> ev, i |-> i, data |-> data, path |-> <<>>]
\* one file-system event of a call's trace
FsEv(ev, path) == [ev |-> ev, i |-> 0, data |-> <<>>, path |-> path]

----------------------------------------------------------------------------
(* The stream helpers of mardor.utils, as the specification describes them: *)
(* block iteration over a file, the bounded exact-length iterator, and the  *)
(* decompression filters.                                                   *)

\* the byte that opens a per-entry compressed payload (its magic)
Bz2Magic == 7
\* a byte no whole-archive codec stream may hold: decoding it is a codec error
XzBad == 9

Range(s) == {s[i] : i \in 1..Len(s)}

\* the per-entry codec: every payload byte stands for two output bytes
Bz2Bytes(b) == Concat([i \in 1..Len(b) |-> <<b[i], b[i]>>])

\* the whole-archive codec: every byte stands for two output bytes
XzBytes(b) == Concat([i \in 1..Len(b) |-> <<b[i], b[i] + 10>>])

\* a decompression filter fed one non-empty block: the filter's next state,
\* the decoded block, and whether the block was well-formed
Decode(codec, b) ==
    CASE codec = "pass" -> [codec |-> "pass", out |-> b, ok |-> TRUE]
      [] codec = "auto" ->
            IF Head(b) = Bz2Magic
            THEN [codec |-> "bz2body", out |-> Bz2Bytes(Tail(b)), ok |-> TRUE]
            ELSE [codec |-> "pass", out |-> b, ok |-> TRUE]
      [] codec = "bz2" ->
            IF Head(b) = Bz2Magic
            THEN [codec |-> "bz2body", out |-> Bz2Bytes(Tail(b)), ok |-> TRUE]
            ELSE [codec |-> "bz2", out |-> <<>>, ok |-> FALSE]
      [] codec = "bz2body" -> [codec |-> "bz2body", out |-> Bz2Bytes(b), ok |-> TRUE]
      [] codec = "xzwhole" ->
            IF XzBad \in Range(b)
            THEN [codec |-> "xzwhole", out |-> <<>>, ok |-> FALSE]
            ELSE [codec |-> "xzwhole", out |-> XzBytes(b), ok |-> TRUE]

\* takeexactly(file_iter(f), size) under a filter, before its first block
Pipeline(size, codec) ==
    [size |-> size, total |-> 0, after |-> FALSE, codec |-> codec]

\* One turn of takeexactly's loop over file_iter: read a block at pos, cut it
\* to what is still owed, pass it through the filter.  st is "more" (a block
\* was consumed), "done" (normal end), "short_read" (the file ended before
\* size bytes were taken) or "codec" (the filter rejected the block).
Step(data, pos, p) ==
    IF p.after /\ p.total >= p.size
    THEN [pos |-> pos, p |-> p, out |-> <<>>, st |-> "done"]
    ELSE With(Slice(data, pos, BlockSize), LAMBDA block :
         IF block = <<>>
         THEN [pos |-> pos, p |-> p, out |-> <<>>,
               st |-> IF p.total < p.size THEN "short_read" ELSE "done"]
         ELSE With(Min(Len(block), p.size - p.total), LAMBDA n :
              With([p EXCEPT !.total = @ + n, !.after = TRUE], LAMBDA q :
              IF n = 0
              THEN [pos |-> pos + Len(block), p |-> q, out |-> <<>>, st |-> "done"]
              ELSE With(Decode(p.codec, SubSeq(block, 1, n)), LAMBDA d :
                   IF d.ok
                   THEN [pos |-> pos + Len(block), p |-> [q EXCEPT !.codec = d.codec],
                         out |-> d.out, st |-> "more"]
                   ELSE [pos |-> pos + Len(block), p |-> q, out |-> <<>>,
                         st |-> "codec"]))))

\* next() on the filtered stream: turns of the loop until a block comes out
\* or the stream ends
RECURSIVE Pull(_, _, _)
Pull(data, pos, p) ==
    With(Step(data, pos, p), LAMBDA s :
         IF s.st = "more" /\ s.out = <<>> THEN Pull(data, s.pos, s.p) ELSE s)

\* write_to_file's loop: every block of the stream, to its end or its error
RECURSIVE Drain(_, _, _, _)
Drain(data, pos, p, blocks) ==
    With(Pull(data, pos, p), LAMBDA s :
         IF s.st = "more"
         THEN Drain(data, s.pos, s.p, Append(blocks, s.out))
         ELSE [pos |-> s.pos, p |-> s.p, blocks |-> blocks, st |-> s.st])

----------------------------------------------------------------------------
(* The reader's mutable state, threaded through the operators below:        *)
(*   raw_pos  the position of _raw_fileobj                                  *)
(*   dfo      _decompressed_fileobj: None or a spool [set, id, pos, data]   *)
(*   temps    the temporary files created: "open" while the reader holds    *)
(*            one, "dropped" when decompress() failed and let go of it      *)
(*   calls    entries into decompress()                                     *)
(*   acalls   entries into decompress() made by the fileobj property        *)
(*   objs     the objects the fileobj property has returned                 *)
(*   log      the events of the running call                                *)

Rd == [raw_pos |-> raw_pos, dfo |-> decompressed_fileobj, temps |-> tempfiles,
       calls |-> decompress_calls, acalls |-> accessor_calls, objs |-> returned,
       log |-> <<>>]

\* the identity of self._raw_fileobj; spools are numbered from 1
RawObj == 0

\* the spool decompress() returns: the decoded bytes written from data_offset on
Spool(id, out) ==
    [set |-> TRUE, id |-> id, pos |-> 0,
     data |-> IF out = <<>> THEN <<>> ELSE Zeros(mardata.data_offset) \o out]

\* decompress() without the seek of line 88: the data section read from
\* wherever the raw stream stands
decompress_from_current(r) ==
    With(Drain(raw_data, r.raw_pos,
               Pipeline(mardata.data_length, "xzwhole"), <<>>), LAMBDA d :
    With([r EXCEPT !.calls = @ + 1, !.raw_pos = d.pos,
                   !.log = Append(@, Ev("decompress", Len(r.temps) + 1, <<>>))], LAMBDA r1 :
         IF d.st = "done"
         THEN [r   |-> [r1 EXCEPT !.temps = Append(@, "open")],
               st  |-> "ok",
               dst |-> Spool(Len(r.temps) + 1, Concat(d.blocks))]
         ELSE [r   |-> [r1 EXCEPT !.temps = Append(@, "dropped")],
               st  |-> d.st,
               dst |-> None]))

\* MarReader.decompress
decompress(r) ==
    With(Drain(raw_data, mardata.data_offset,
               Pipeline(mardata.data_length, "xzwhole"), <<>>), LAMBDA d :
    With([r EXCEPT !.calls = @ + 1, !.raw_pos = d.pos,
                   !.log = Append(@, Ev("decompress", Len(r.temps) + 1, <<>>))], LAMBDA r1 :
         IF d.st = "done"
         THEN [r   |-> [r1 EXCEPT !.temps = Append(@, "open")],
               st  |-> "ok",
               dst |-> Spool(Len(r.temps) + 1, Concat(d.blocks))]
         ELSE [r   |-> [r1 EXCEPT !.temps = Append(@, "dropped")],
               st  |-> d.st,
               dst |-> None]))

\* the field set to the temporary file before the decompression has ended, so
\* that a failure leaves the unfinished spool behind in it
Cached_keeping_unfinished(d) ==
    IF d.st = "ok"
    THEN [r   |-> [d.r EXCEPT !.dfo = d.dst, !.objs = @ \cup {d.dst.id},
                              !.acalls = @ + 1],
          st  |-> "ok",
          obj |-> d.dst.id]
    ELSE [r   |-> [d.r EXCEPT !.dfo = [None EXCEPT !.set = TRUE, !.id = Len(d.r.temps)],
                              !.acalls = @ + 1],
          st  |-> d.st,
          obj |-> RawObj]

\* fileobj, lines 78-79: the property has called decompress(); the spool it
\* returned is kept and returned; an error of decompress() leaves the field as
\* it was
Cached(d) ==
    IF d.st = "ok"
    THEN [r   |-> [d.r EXCEPT !.dfo = d.dst, !.objs = @ \cup {d.dst.id},
                              !.acalls = @ + 1],
          st  |-> "ok",
          obj |-> d.dst.id]
    ELSE [r |-> [d.r EXCEPT !.acalls = @ + 1], st |-> d.st, obj |-> RawObj]

\* fileobj without the cache: every access of a compressed archive decompresses
fileobj_uncached(r) ==
    IF ~mardata.is_compressed
    THEN [r |-> [r EXCEPT !.objs = @ \cup {RawObj}], st |-> "ok", obj |-> RawObj]
    ELSE Cached(decompress(r))

\* fileobj without the is_compressed test: every archive goes through the spool
fileobj_unconditional(r) ==
    IF r.dfo = None
    THEN Cached(decompress(r))
    ELSE [r |-> [r EXCEPT !.objs = @ \cup {r.dfo.id}], st |-> "ok", obj |-> r.dfo.id]

\* MarReader.fileobj: st is "ok" with the object returned (noted in objs), or
\* the error raised
fileobj(r) ==
    IF ~mardata.is_compressed
    THEN [r |-> [r EXCEPT !.objs = @ \cup {RawObj}], st |-> "ok", obj |-> RawObj]
    ELSE IF r.dfo = None
         THEN Cached(decompress(r))
         ELSE [r |-> [r EXCEPT !.objs = @ \cup {r.dfo.id}], st |-> "ok", obj |-> r.dfo.id]

\* the bytes and the position behind a file object, and seek()
FileData(r, obj) == IF obj = RawObj THEN raw_data ELSE r.dfo.data
FilePos(r, obj) == IF obj = RawObj THEN r.raw_pos ELSE r.dfo.pos
Seek(r, obj, pos) ==
    IF obj = RawObj THEN [r EXCEPT !.raw_pos = pos] ELSE [r EXCEPT !.dfo.pos = pos]

----------------------------------------------------------------------------
(* verify.  The verifiers of mardor.signing are modelled by what they are   *)
(* given: a verifier accepts when its signature record is a genuine         *)
(* signature for the key and the blocks fed to it are the signed bytes.     *)

GoodKey == "good_key"
Keys == {GoodKey, "other_key"}

\* the positions of the signature bytes inside the signed range
SigMask == {1}

\* the bytes of data a signature covers: the first filesize bytes without the
\* signature bytes themselves
RECURSIVE Unmasked(_, _, _)
Unmasked(data, pos, n) ==
    IF n = 0 \/ pos >= Len(data) THEN <<>>
    ELSE (IF pos \in SigMask THEN <<>> ELSE <<data[pos + 1]>>)
         \o Unmasked(data, pos + 1, n - 1)

\* get_signature_data(f, filesize): the signed range of data as blocks, read
\* from position 0 on, and the position the file is left at
RECURSIVE SigBlocks(_, _, _)
SigBlocks(data, pos, filesize) ==
    IF pos >= filesize \/ pos >= Len(data) THEN <<>>
    ELSE LET n == Min(BlockSize, Min(filesize, Len(data)) - pos)
             b == Unmasked(data, pos, n)
         IN  (IF b = <<>> THEN <<>> ELSE <<b>>) \o SigBlocks(data, pos + n, filesize)

get_signature_data(data, filesize) ==
    [blocks |-> SigBlocks(data, 0, filesize), pos |-> Min(filesize, Len(data))]

\* the stream the archive was signed over: the raw bytes, or the decompressed
\* view of them laid out as the spool is
SignedStream ==
    IF mardata.is_compressed
    THEN Zeros(mardata.data_offset)
         \o XzBytes(Slice(raw_data, mardata.data_offset, mardata.data_length))
    ELSE raw_data

SignedBytes == Unmasked(SignedStream, 0, mardata.signatures.filesize)

\* make_verifier_v1 / make_verifier_v2
make_verifier(algo, key, sig) ==
    [algo |-> algo, key |-> key, genuine |-> sig.genuine, fed |-> <<>>]

\* Verifier.verify(): TRUE, or FALSE for InvalidSignature
Accepts(v) ==
    v.genuine /\ v.key = GoodKey /\ Concat(v.fed) = SignedBytes

\* the test of line 163 without its second half
no_signatures_block_only == ~mardata.signatures.present

\* verify, line 163: nothing to verify
no_signatures ==
    ~mardata.signatures.present \/ mardata.signatures.sigs = <<>>

\* the build loop passing over the records of another algorithm
RECURSIVE verify_build_skipping(_, _, _)
verify_build_skipping(sigs, key, b) ==
    IF sigs = <<>> THEN b
    ELSE LET sig == Head(sigs)
             i   == Len(b.verifiers) + 1
         IN  IF sig.algorithm_id = SHA1 \/ sig.algorithm_id = SHA384
             THEN verify_build_skipping(Tail(sigs), key,
                      [b EXCEPT !.verifiers = Append(@, make_verifier(sig.algorithm_id, key, sig)),
                                !.log = Append(@, Ev("make_verifier", i, <<>>))])
             ELSE verify_build_skipping(Tail(sigs), key, b)

\* verify, lines 167-176: one verifier per record, or ValueError at the first
\* record of another algorithm
RECURSIVE verify_build(_, _, _)
verify_build(sigs, key, b) ==
    IF sigs = <<>> THEN b
    ELSE LET sig == Head(sigs)
             i   == Len(b.verifiers) + 1
         IN  IF sig.algorithm_id = SHA1 \/ sig.algorithm_id = SHA384
             THEN verify_build(Tail(sigs), key,
                      [b EXCEPT !.verifiers = Append(@, make_verifier(sig.algorithm_id, key, sig)),
                                !.log = Append(@, Ev("make_verifier", i, <<>>))])
             ELSE [b EXCEPT !.st = "ValueError"]

\* the fan-out reaching the first verifier only
update_all_first_only(verifiers, block) ==
    [i \in 1..Len(verifiers) |->
        IF i = 1 THEN [verifiers[i] EXCEPT !.fed = Append(@, block)] ELSE verifiers[i]]

\* verify, line 182: one block to every verifier, in list order
update_all(verifiers, block) ==
    [i \in 1..Len(verifiers) |-> [verifiers[i] EXCEPT !.fed = Append(@, block)]]

UpdateEvents(n, block) == [i \in 1..n |-> Ev("update", i, block)]

\* verify, lines 180-182: the blocks of the signed range, each to every verifier
RECURSIVE verify_scan(_, _, _)
verify_scan(blocks, verifiers, log) ==
    IF blocks = <<>> THEN [verifiers |-> verifiers, log |-> log]
    ELSE verify_scan(Tail(blocks), update_all(verifiers, Head(blocks)),
                     Append(log, Ev("read", 0, Head(blocks)))
                        \o UpdateEvents(Len(verifiers), Head(blocks)))

\* the final loop returning True as soon as one verifier accepts
RECURSIVE verify_finalize_any(_, _, _)
verify_finalize_any(verifiers, i, log) ==
    IF i > Len(verifiers) THEN [ret |-> "False", log |-> log]
    ELSE IF Accepts(verifiers[i])
         THEN [ret |-> "True", log |-> Append(log, Ev("finalize_ok", i, <<>>))]
         ELSE verify_finalize_any(verifiers, i + 1,
                                  Append(log, Ev("finalize_invalid", i, <<>>)))

\* the final loop going on to the remaining verifiers after one has raised
\* InvalidSignature
RECURSIVE verify_finalize_all(_, _, _)
verify_finalize_all(verifiers, i, log) ==
    IF i > Len(verifiers)
    THEN [ret |-> IF \A k \in DOMAIN verifiers : Accepts(verifiers[k])
                  THEN "True" ELSE "False",
          log |-> log]
    ELSE verify_finalize_all(verifiers, i + 1,
             Append(log, Ev(IF Accepts(verifiers[i]) THEN "finalize_ok"
                            ELSE "finalize_invalid", i, <<>>)))

\* verify, lines 184-190: False at the first verifier that raises
\* InvalidSignature, True when the loop runs out
RECURSIVE verify_finalize(_, _, _)
verify_finalize(verifiers, i, log) ==
    IF i > Len(verifiers) THEN [ret |-> "True", log |-> log]
    ELSE IF Accepts(verifiers[i])
         THEN verify_finalize(verifiers, i + 1, Append(log, Ev("finalize_ok", i, <<>>)))
         ELSE [ret |-> "False", log |-> Append(log, Ev("finalize_invalid", i, <<>>))]

\* verify, lines 180-190: the scan of the file object a and the final loop
verify_stream(a, verifiers) ==
    With(get_signature_data(FileData(a.r, a.obj), mardata.signatures.filesize), LAMBDA g :
    With(verify_scan(g.blocks, verifiers, a.r.log), LAMBDA sc :
    With(verify_finalize(sc.verifiers, 1, sc.log), LAMBDA fi :
         [r |-> [Seek(a.r, a.obj, g.pos) EXCEPT !.log = fi.log],
          ret |-> fi.ret, verifiers |-> sc.verifiers])))

\* MarReader.verify: the value returned ("True", "False") or the error raised,
\* the reader afterwards, and the verifiers as the call left them
verify(r, key) ==
    IF no_signatures
    THEN [r |-> r, ret |-> "False", verifiers |-> <<>>]
    ELSE With(verify_build(mardata.signatures.sigs, key,
                           [st |-> "ok", verifiers |-> <<>>, log |-> r.log]), LAMBDA b :
         IF b.st # "ok"
         THEN [r |-> [r EXCEPT !.log = b.log], ret |-> b.st, verifiers |-> b.verifiers]
         ELSE With(fileobj([r EXCEPT !.log = Append(b.log, Ev("fileobj", 0, <<>>))]), LAMBDA a :
              IF a.st # "ok"
              THEN [r |-> a.r, ret |-> a.st, verifiers |-> b.verifiers]
              ELSE verify_stream(a, b.verifiers)))

----------------------------------------------------------------------------
(* extract_entry: a generator.  Nothing of its body runs before the first   *)
(* next(); each next() runs it to its next yield, its end or its error.     *)

NoEntry == [name |-> <<>>, offset |-> 0, size |-> 0]

NoGen == [st |-> "none", e |-> NoEntry, mode |-> "none", obj |-> RawObj,
          p |-> Pipeline(0, "pass"), out |-> <<>>, err |-> "", clean |-> TRUE]

\* the xz branch running the per-entry codec instead of doing nothing
Filter_xz_decoding(mode) ==
    CASE mode = "auto" -> "auto"
      [] mode = "bz2"  -> "bz2"
      [] mode = "xz"   -> "bz2body"
      [] OTHER         -> "pass"

\* extract_entry, lines 123-129: the filter a Decompression value selects
Filter(mode) ==
    CASE mode = "auto" -> "auto"
      [] mode = "bz2"  -> "bz2"
      [] mode = "xz"   -> "pass"
      [] OTHER         -> "pass"

\* MarReader.extract_entry(e, decompress): the generator object, not started
extract_entry(e, mode) == [NoGen EXCEPT !.st = "new", !.e = e, !.mode = mode]

\* extract_entry, lines 121-122: the fileobj property read again, and the
\* bounded block iterator over the object it gives
gen_stream(r, g) ==
    With(fileobj([r EXCEPT !.log = Append(@, Ev("fileobj", 0, <<>>))]), LAMBDA b :
         IF b.st # "ok"
         THEN [r |-> b.r, g |-> [g EXCEPT !.st = "err", !.err = b.st]]
         ELSE [r |-> b.r,
               g |-> [g EXCEPT !.st = "run", !.obj = b.obj,
                               !.p = Pipeline(g.e.size, Filter(g.mode))]])

\* the start of the body decompressing for itself at line 120 instead of
\* asking the fileobj property
gen_start_decompressing(r, g) ==
    With(IF mardata.is_compressed
         THEN Cached(decompress([r EXCEPT !.log = Append(@, Ev("fileobj", 0, <<>>))]))
         ELSE fileobj([r EXCEPT !.log = Append(@, Ev("fileobj", 0, <<>>))]), LAMBDA a :
         IF a.st # "ok"
         THEN [r |-> a.r, g |-> [g EXCEPT !.st = "err", !.err = a.st]]
         ELSE gen_stream([Seek(a.r, a.obj, g.e.offset)
                            EXCEPT !.log = Append(@, Ev("seek", g.e.offset,
                                                        <<FilePos(a.r, a.obj)>>))], g))

\* the start of the body without the seek of line 120
gen_start_no_seek(r, g) ==
    With(fileobj([r EXCEPT !.log = Append(@, Ev("fileobj", 0, <<>>))]), LAMBDA a :
         IF a.st # "ok"
         THEN [r |-> a.r, g |-> [g EXCEPT !.st = "err", !.err = a.st]]
         ELSE gen_stream(a.r, g))

\* the start of the body seeking from where the stream stands instead of from
\* its beginning
gen_start_relative_seek(r, g) ==
    With(fileobj([r EXCEPT !.log = Append(@, Ev("fileobj", 0, <<>>))]), LAMBDA a :
         IF a.st # "ok"
         THEN [r |-> a.r, g |-> [g EXCEPT !.st = "err", !.err = a.st]]
         ELSE gen_stream([Seek(a.r, a.obj, FilePos(a.r, a.obj) + g.e.offset)
                            EXCEPT !.log = Append(@, Ev("seek", g.e.offset,
                                                        <<FilePos(a.r, a.obj)>>))], g))

\* extract_entry, lines 120-122: the start of the body, run by the first
\* next(): the fileobj property is read and the object it gives is moved to
\* the entry's offset (the seek is logged with the position the stream stood
\* at); then the property is read a second time for the stream
gen_start(r, g) ==
    With(fileobj([r EXCEPT !.log = Append(@, Ev("fileobj", 0, <<>>))]), LAMBDA a :
         IF a.st # "ok"
         THEN [r |-> a.r, g |-> [g EXCEPT !.st = "err", !.err = a.st]]
         ELSE gen_stream([Seek(a.r, a.obj, g.e.offset)
                            EXCEPT !.log = Append(@, Ev("seek", g.e.offset,
                                                        <<FilePos(a.r, a.obj)>>))], g))

\* the reader after the generator's stream moved its file to s.pos
Pulled(r, g, s) ==
    [Seek(r, g.obj, s.pos) EXCEPT !.log = Append(@, Ev("read", s.pos, s.out))]

\* the final loop ending quietly when the stream raises
gen_pull_swallowing(r, g) ==
    With(Pull(FileData(r, g.obj), FilePos(r, g.obj), g.p), LAMBDA s :
         CASE s.st = "more" -> [r |-> Pulled(r, g, s),
                                g |-> [g EXCEPT !.p = s.p, !.out = Append(@, s.out)]]
           [] OTHER         -> [r |-> Pulled(r, g, s),
                                g |-> [g EXCEPT !.p = s.p, !.st = "done"]])

\* extract_entry, lines 131-132: one next() of a started generator
gen_pull(r, g) ==
    With(Pull(FileData(r, g.obj), FilePos(r, g.obj), g.p), LAMBDA s :
         CASE s.st = "more" -> [r |-> Pulled(r, g, s),
                                g |-> [g EXCEPT !.p = s.p, !.out = Append(@, s.out)]]
           [] s.st = "done" -> [r |-> Pulled(r, g, s),
                                g |-> [g EXCEPT !.p = s.p, !.st = "done"]]
           [] OTHER         -> [r |-> Pulled(r, g, s),
                                g |-> [g EXCEPT !.p = s.p, !.st = "err", !.err = s.st]])

\* next() on an extract_entry generator
gen_next(r, g) ==
    IF g.st = "new"
    THEN With(gen_start(r, g), LAMBDA b :
              IF b.g.st = "run" THEN gen_pull(b.r, b.g) ELSE b)
    ELSE gen_pull(r, g)

\* write_to_file(self.extract_entry(e, decompress), f): next() until the end
RECURSIVE drain_entry(_, _)
drain_entry(r, g) ==
    With(gen_next(r, g), LAMBDA n :
         IF n.g.st \in {"done", "err"} THEN n ELSE drain_entry(n.r, n.g))

----------------------------------------------------------------------------
(* extract.  Paths are sequences of components below the root <<>>; a name  *)
(* is the sequence of its components, "/" standing for a leading slash.     *)

\* os.path.normpath(os.path.join(base, name))
RECURSIVE normpath(_, _)
normpath(parts, acc) ==
    IF parts = <<>> THEN acc
    ELSE LET c == Head(parts) IN
         normpath(Tail(parts),
                  CASE c = ".." -> IF acc = <<>> THEN <<>> ELSE SubSeq(acc, 1, Len(acc) - 1)
                    [] c = "."  -> acc
                    [] c = "/"  -> <<>>
                    [] OTHER    -> Append(acc, c))

IsPrefix(a, b) == Len(a) <= Len(b) /\ SubSeq(b, 1, Len(a)) = a

\* path lies below base
Inside(path, base) == IsPrefix(base, path) /\ path # base

\* safejoin(base, name): the joined path, or ok = FALSE for the error raised
\* when the result would not lie below base
safejoin(base, name) ==
    LET path == normpath(name, base) IN [ok |-> Inside(path, base), path |-> path]

\* a join that checks nothing: the path the name leads to, wherever it lies
entry_path_unchecked(destdir, name) ==
    [ok |-> TRUE, path |-> normpath(name, destdir)]

\* a join that only refuses names that begin with ".."
entry_path_leading_dots(destdir, name) ==
    [ok |-> name = <<>> \/ Head(name) # "..", path |-> normpath(name, destdir)]

\* extract, line 147: entry_path = safejoin(destdir, name)
entry_path(destdir, name) == safejoin(destdir, name)

dirname(path) == SubSeq(path, 1, Len(path) - 1)

Prefixes(path) == {SubSeq(path, 1, k) : k \in 0..Len(path)}

\* mkdir(path): the directory and its missing parents; fails on a file in the way
mkdir(f, path) ==
    IF Prefixes(path) \cap DOMAIN f.files # {}
    THEN [ok |-> FALSE, fs |-> f, made |-> {}]
    ELSE [ok |-> TRUE, fs |-> [f EXCEPT !.dirs = @ \cup Prefixes(path)],
          made |-> Prefixes(path) \ f.dirs]

\* f with the file at path holding data
WriteFile(f, path, data) ==
    [f EXCEPT !.files = (path :> data) @@ @]

MkdirEvents(made) ==
    IF made = {} THEN <<>>
    ELSE LET RECURSIVE List(_)
             List(S) == IF S = {} THEN <<>>
                        ELSE LET x == CHOOSE y \in S : \A z \in S : Len(y) <= Len(z)
                             IN  <<FsEv("mkdir", x)>> \o List(S \ {x})
         IN  List(made)

\* extract, lines 150-151: the file at path opened for writing and the entry's
\* blocks written to it; what was written before an error stays
write_entry(r, f, path, e, mode) ==
    With(drain_entry([r EXCEPT !.log = Append(@, FsEv("open", path))],
                     extract_entry(e, mode)), LAMBDA d :
         [r  |-> [d.r EXCEPT !.log = Append(@, FsEv("close", path))],
          fs |-> WriteFile(f, path, Concat(d.g.out)),
          st |-> IF d.g.st = "done" THEN "ok" ELSE d.g.err])

\* extract, lines 148-151 for one entry whose path is known
extract_one(x, path, e, mode) ==
    With(mkdir(x.fs, dirname(path)), LAMBDA m :
         IF ~m.ok \/ path \in m.fs.dirs
         THEN [r  |-> [x.r EXCEPT !.log = @ \o MkdirEvents(m.made)],
               fs |-> m.fs, st |-> "OSError"]
         ELSE write_entry([x.r EXCEPT !.log = @ \o MkdirEvents(m.made)],
                          m.fs, path, e, mode))

\* the loop passing over an entry that failed and going on with the next one
RECURSIVE extract_loop_continuing(_, _, _, _)
extract_loop_continuing(entries, destdir, mode, x) ==
    IF entries = <<>> THEN x
    ELSE With(entry_path(destdir, Head(entries).name), LAMBDA j :
         IF ~j.ok
         THEN extract_loop_continuing(Tail(entries), destdir, mode,
                                      [x EXCEPT !.st = "path_traversal"])
         ELSE With(extract_one(x, j.path, Head(entries), mode), LAMBDA y :
              extract_loop_continuing(Tail(entries), destdir, mode,
                  IF y.st = "ok" THEN [y EXCEPT !.st = x.st] ELSE y)))

\* MarReader.extract: the entries in index order, to the end or the first
\* error.  x holds the reader, the file system and the outcome so far.
RECURSIVE extract_loop(_, _, _, _)
extract_loop(entries, destdir, mode, x) ==
    IF entries = <<>> THEN x
    ELSE With(entry_path(destdir, Head(entries).name), LAMBDA j :
         IF ~j.ok THEN [x EXCEPT !.st = "path_traversal"]
         ELSE With(extract_one(x, j.path, Head(entries), mode), LAMBDA y :
              IF y.st = "ok"
              THEN extract_loop(Tail(entries), destdir, mode, y)
              ELSE y))

extract(r, f, destdir, mode) ==
    extract_loop(mardata.index.entries, destdir, mode, [r |-> r, fs |-> f, st |-> "ok"])

----------------------------------------------------------------------------
(* The archives the reader is opened on. *)

\* the raw bytes: one header byte, then the data section
GoodRaw == <<5, 7, 1, 2, 3, 4>>
\* the same with a byte the whole-archive codec rejects
BadRaw == <<5, 7, 9, 2, 3, 4>>

\* data_offset as the parser reports it
DataOffset == 1
\* data_length as the parser reports it for the data section
DataLength == 5

\* the streams: uncompressed; compressed and sound; compressed with a
\* malformed data section; compressed with a data section one byte short of
\* the data_length the header declares; compressed with two bytes that follow
\* the data section
Layouts ==
    { [is_compressed |-> FALSE, raw |-> GoodRaw, data_length |-> DataLength],
      [is_compressed |-> TRUE,  raw |-> GoodRaw, data_length |-> DataLength],
      [is_compressed |-> TRUE,  raw |-> BadRaw,  data_length |-> DataLength],
      [is_compressed |-> TRUE,  raw |-> GoodRaw, data_length |-> DataLength + 1],
      [is_compressed |-> TRUE,  raw |-> GoodRaw, data_length |-> DataLength - 2] }

\* signatures.filesize as the parser reports it
SignedSize == 4

EntryPool ==
    { [name |-> <<"a">>,                offset |-> 1, size |-> 3],
      [name |-> <<"sub", "b">>,         offset |-> 2, size |-> 2],
      [name |-> <<"..", "evil">>,       offset |-> 1, size |-> 3],
      [name |-> <<"sub", "..", "c">>,   offset |-> 4, size |-> 4],
      [name |-> <<"/", "etc", "x">>,    offset |-> 2, size |-> 2],
      [name |-> <<"sub", "z">>,         offset |-> 3, size |-> 0] }

\* the entries a caller hands to extract_entry: one per range of the pool
CallerEntries == {e \in EntryPool : e.name \in {<<"a">>, <<"sub", "b">>,
                                               <<"sub", "..", "c">>, <<"sub", "z">>}}

SigPool ==
    { [algorithm_id |-> SHA1,      genuine |-> TRUE],
      [algorithm_id |-> SHA384,    genuine |-> TRUE],
      [algorithm_id |-> SHA384,    genuine |-> FALSE],
      [algorithm_id |-> OtherAlgo, genuine |-> FALSE] }

SeqsUpTo(S, n) == UNION {[1..k -> S] : k \in 0..n}

Distinct(s) == \A i, j \in 1..Len(s) : i # j => s[i] # s[j]

Indexes == {s \in SeqsUpTo(EntryPool, MaxEntries) : Distinct(s)}

NoSignatures == [present |-> FALSE, filesize |-> 0, sigs |-> <<>>]

SignatureBlocks ==
    {NoSignatures}
    \cup {[present |-> TRUE, filesize |-> SignedSize, sigs |-> s] :
            s \in SeqsUpTo(SigPool, MaxSigs)}

DefaultIndex == <<[name |-> <<"a">>, offset |-> 1, size |-> 3]>>
DefaultSignatures ==
    [present |-> TRUE, filesize |-> SignedSize,
     sigs |-> <<[algorithm_id |-> SHA384, genuine |-> TRUE]>>]

\* mar.parse_stream's result for a layout, an index and a signature block
MarData(lay, ix, sb) ==
    [is_compressed |-> lay.is_compressed, data_offset |-> DataOffset,
     data_length |-> lay.data_length, index |-> [entries |-> ix], signatures |-> sb]

\* the directory extract is given
DestDir == <<"dest">>

\* the callers that hold an extract_entry generator
GenIds == {1}

----------------------------------------------------------------------------
(* The state after MarReader(fileobj), lines 55-70. *)

\* key holds the argument of the call: verify's key, extract's mode
NoCall == [op |-> "none", ret |-> "", obj |-> RawObj, verifiers |-> <<>>, log |-> <<>>,
           key |-> ""]

NoFiles == [dirs |-> {<<>>}, files |-> <<>>]

\* MarReader.__init__ on an archive of the given layouts, indexes and
\* signature blocks; the parser has read the raw stream to its end
Opened(lays, ixs, sbs) ==
    /\ \E lay \in lays, ix \in ixs, sb \in sbs :
          /\ mardata = MarData(lay, ix, sb)
          /\ raw_data = lay.raw
    /\ raw_pos = Len(raw_data)
    /\ decompressed_fileobj = None
    /\ tempfiles = <<>>
    /\ decompress_calls = 0
    /\ accessor_calls = 0
    /\ returned = {}
    /\ gens = [t \in GenIds |-> NoGen]
    /\ fs = NoFiles
    /\ disposed = FALSE
    /\ last = NoCall

\* the reader's state after a call
Commit(r) ==
    /\ raw_pos' = r.raw_pos
    /\ decompressed_fileobj' = r.dfo
    /\ tempfiles' = r.temps
    /\ decompress_calls' = r.calls
    /\ accessor_calls' = r.acalls
    /\ returned' = r.objs

\* a call may enter decompress() only while the bound on entries allows it
MayAccess ==
    \/ ~mardata.is_compressed
    \/ decompressed_fileobj # None
    \/ decompress_calls < MaxDecompress

\* a call that moves the shared stream breaks into every running generator
Disturb(gs, except) ==
    [t \in DOMAIN gs |->
        IF t \notin except /\ gs[t].st = "run" THEN [gs[t] EXCEPT !.clean = FALSE] ELSE gs[t]]

\* a caller reads reader.fileobj
Access ==
    /\ ~disposed /\ MayAccess
    /\ \E a \in {fileobj(Rd)} :
          /\ Commit(a.r)
          /\ last' = [NoCall EXCEPT !.op = "fileobj", !.ret = a.st, !.obj = a.obj,
                                    !.log = a.r.log]
    /\ UNCHANGED <<mardata, raw_data, gens, fs, disposed>>

\* a call that moves the raw stream breaks into the running generators that
\* read it: those of an archive that is not compressed
DisturbRaw(gs) == IF mardata.is_compressed THEN gs ELSE Disturb(gs, {})

\* a caller calls reader.decompress() itself: the spool goes to the caller,
\* _decompressed_fileobj stays as it is
Decompress ==
    /\ ~disposed
    /\ decompress_calls < MaxDecompress
    /\ \E d \in {decompress(Rd)} :
          /\ Commit(d.r)
          /\ last' = [NoCall EXCEPT !.op = "decompress", !.ret = d.st,
                                    !.obj = d.dst.id, !.log = d.r.log]
    /\ gens' = DisturbRaw(gens)
    /\ UNCHANGED <<mardata, raw_data, fs, disposed>>

\* a caller calls reader.verify(key)
Verify(key) ==
    /\ ~disposed /\ MayAccess
    /\ \E v \in {verify(Rd, key)} :
          /\ Commit(v.r)
          /\ last' = [NoCall EXCEPT !.op = "verify", !.ret = v.ret, !.key = key,
                                    !.verifiers = v.verifiers, !.log = v.r.log]
    /\ gens' = Disturb(gens, {})
    /\ UNCHANGED <<mardata, raw_data, fs, disposed>>

\* caller t calls reader.extract_entry(e, mode)
ExtractEntry(t, e, mode) ==
    /\ ~disposed
    /\ gens[t].st \in {"none", "done", "err"}
    /\ gens' = [gens EXCEPT ![t] = extract_entry(e, mode)]
    /\ last' = [NoCall EXCEPT !.op = "extract_entry"]
    /\ UNCHANGED <<mardata, raw_data, raw_pos, decompressed_fileobj, tempfiles,
                   decompress_calls, accessor_calls, returned, fs, disposed>>

\* caller t calls next() on its generator
GenNext(t) ==
    /\ ~disposed /\ MayAccess
    /\ gens[t].st \in {"new", "run"}
    /\ \E n \in {gen_next(Rd, gens[t])} :
          /\ Commit(n.r)
          /\ gens' = [Disturb(gens, {t}) EXCEPT ![t] = n.g]
          /\ last' = [NoCall EXCEPT !.op = "next", !.ret = n.g.st, !.log = n.r.log]
    /\ UNCHANGED <<mardata, raw_data, fs, disposed>>

\* a caller calls reader.extract(DestDir, mode)
Extract(mode) ==
    /\ ~disposed /\ MayAccess
    /\ \E x \in {extract(Rd, fs, DestDir, mode)} :
          /\ Commit(x.r)
          /\ fs' = x.fs
          /\ last' = [NoCall EXCEPT !.op = "extract", !.ret = x.st, !.key = mode,
                                    !.log = x.r.log]
    /\ gens' = Disturb(gens, {})
    /\ UNCHANGED <<mardata, raw_data, disposed>>

\* MarReader.__exit__: the with block ends
Exit ==
    /\ ~disposed
    /\ disposed' = TRUE
    /\ last' = [NoCall EXCEPT !.op = "exit"]
    /\ UNCHANGED <<mardata, raw_data, raw_pos, decompressed_fileobj, tempfiles,
                   decompress_calls, accessor_calls, returned, gens, fs>>

\* Every operation of the reader, on one archive of each layout.
Init == Opened(Layouts, {DefaultIndex}, {DefaultSignatures})

Next ==
    \/ Access
    \/ Decompress
    \/ \E key \in Keys : Verify(key)
    \/ \E t \in GenIds, e \in CallerEntries, mode \in Decompression : ExtractEntry(t, e, mode)
    \/ \E t \in GenIds : GenNext(t)
    \/ \E mode \in Decompression : Extract(mode)
    \/ Exit

Spec == Init /\ [][Next]_vars

\* verify on every signature block: verify is one call, and what it does
\* depends on the reader only through the cached spool, which Access fills.
InitVerify == Opened(Layouts, {DefaultIndex}, SignatureBlocks)

NextVerify ==
    \/ Access
    \/ Decompress
    \/ \E key \in Keys : Verify(key)
    \/ Exit

SpecVerify == InitVerify /\ [][NextVerify]_vars

\* extract on every index: extract is one call, and what it does depends on
\* the reader only through the cached spool, which Access fills.
InitExtract == Opened(Layouts, Indexes, {DefaultSignatures})

NextExtract ==
    \/ Access
    \/ Decompress
    \/ \E mode \in Decompression : Extract(mode)
    \/ Exit

SpecExtract == InitExtract /\ [][NextExtract]_vars

\* Several callers extracting from one reader, each inside one critical
\* section from its generator's first next() to the generator's end.  The
\* reader has no lock; the mutex is the callers', and its holder is the
\* caller whose generator has started and not ended.
Callers == {1, 2}

\* the mutex is free, or caller t holds it
Exclusive(t) == \A u \in DOMAIN gens \ {t} : gens[u].st # "run"

\* caller t calls extract_entry for an entry no other caller is extracting
ExtractOther(t, e, mode) ==
    /\ \A u \in DOMAIN gens \ {t} : gens[u].st \in {"new", "run"} => gens[u].e # e
    /\ ExtractEntry(t, e, mode)

\* caller t calls next() inside its critical section
LockedNext(t) == Exclusive(t) /\ GenNext(t)

\* a caller calls decompress() itself while it holds the mutex
LockedDecompress == (\A u \in DOMAIN gens : gens[u].st # "run") /\ Decompress

InitLocked ==
    /\ \E lay \in Layouts :
          /\ mardata = MarData(lay, DefaultIndex, DefaultSignatures)
          /\ raw_data = lay.raw
    /\ raw_pos = Len(raw_data)
    /\ decompressed_fileobj = None
    /\ tempfiles = <<>>
    /\ decompress_calls = 0
    /\ accessor_calls = 0
    /\ returned = {}
    /\ gens = [t \in Callers |-> NoGen]
    /\ fs = NoFiles
    /\ disposed = FALSE
    /\ last = NoCall

NextLocked ==
    \/ \E t \in Callers, e \in CallerEntries, mode \in Decompression : ExtractOther(t, e, mode)
    \/ \E t \in Callers : LockedNext(t)
    \/ LockedDecompress

SpecLocked == InitLocked /\ [][NextLocked]_vars

----------------------------------------------------------------------------
(* Properties. *)

Sigs == mardata.signatures.sigs
Entries == mardata.index.entries

HasSignatures == mardata.signatures.present /\ Sigs # <<>>
Supported(i) == Sigs[i].algorithm_id \in {SHA1, SHA384}

\* the data section as the header declares it lies within the raw stream and
\* holds nothing the codec rejects
SoundDataSection ==
    /\ mardata.data_offset + mardata.data_length <= Len(raw_data)
    /\ XzBad \notin Range(Slice(raw_data, mardata.data_offset, mardata.data_length))

\* the accessor has a stream to give: the raw one, or the cached spool
HasStream == ~mardata.is_compressed \/ decompressed_fileobj # None

\* the events of the last call with one of the given names
EventsOf(names) == {i \in DOMAIN last.log : last.log[i].ev \in names}

StreamEvents == {"fileobj", "decompress", "seek", "read"}
VerifierEvents == {"update", "finalize_ok", "finalize_invalid"}

\* C1: on an archive whose signature records are all SHA1 or SHA384 (and at
\* least one), verify builds one verifier per record and returns True exactly
\* when the scan took place and every verifier accepts; when some verifier
\* rejects, the value returned is False, and the only errors verify raises are
\* those of the decompression.
C1_VerifyTrueIffEveryVerifierAccepts ==
    (last.op = "verify" /\ HasSignatures /\ \A i \in DOMAIN Sigs : Supported(i)) =>
        /\ Len(last.verifiers) = Len(Sigs)
        /\ last.ret = "True" <=>
              (HasStream /\ \A i \in DOMAIN last.verifiers : Accepts(last.verifiers[i]))
        /\ (HasStream /\ \E i \in DOMAIN last.verifiers : ~Accepts(last.verifiers[i]))
              => last.ret = "False"
        /\ ~HasStream => last.ret \in {"short_read", "codec"}

\* C1 witness: two verifiers, the first accepts, the second rejects, and
\* verify has returned False.
C1_Witness ==
    /\ last.op = "verify" /\ last.ret = "False"
    /\ Len(last.verifiers) = 2
    /\ Accepts(last.verifiers[1]) /\ ~Accepts(last.verifiers[2])

\* C2: without a signature block, or with an empty signature list, verify
\* returns False for every key, builds no verifier, and neither asks for the
\* file object nor decompresses nor reads.
C2_NoSignaturesIsFalseWithoutIO ==
    (last.op = "verify" /\ ~HasSignatures) =>
        /\ last.ret = "False"
        /\ last.verifiers = <<>>
        /\ last.log = <<>>

\* C2 witness: verify has returned on a compressed archive that has a
\* signature block with an empty list, before any decompression.
C2_Witness ==
    /\ last.op = "verify" /\ last.key = GoodKey
    /\ mardata.is_compressed
    /\ mardata.signatures.present /\ Sigs = <<>>
    /\ decompress_calls = 0

\* C3: a record of another algorithm, wherever it stands in the list, makes
\* verify raise the unsupported-algorithm error with no access to the file
\* object, no decompression, no read, and no verifier updated or finalized.
C3_UnsupportedAlgorithmBeforeIO ==
    (last.op = "verify" /\ HasSignatures /\ \E i \in DOMAIN Sigs : ~Supported(i)) =>
        /\ last.ret = "ValueError"
        /\ EventsOf(StreamEvents \cup VerifierEvents) = {}
        /\ \A i \in DOMAIN last.verifiers : last.verifiers[i].fed = <<>>

\* C3 witness: the unsupported record is the second one, after a supported
\* record whose verifier was built, on a compressed archive not yet
\* decompressed.
C3_Witness ==
    /\ last.op = "verify" /\ last.ret = "ValueError"
    /\ Len(Sigs) = 2 /\ Supported(1) /\ ~Supported(2)
    /\ Len(last.verifiers) = 1
    /\ mardata.is_compressed /\ decompress_calls = 0

\* C4 as claimed: on a compressed archive the fileobj property enters
\* decompress() at most once, whatever the calls, and returns one object.
C4_DecompressEnteredAtMostOnce ==
    mardata.is_compressed =>
        /\ accessor_calls <= 1
        /\ Cardinality(returned) <= 1

\* C4 amended: on a compressed archive every access that returns gives the
\* same cached spool, a spool that decompress() made and that is open; on a
\* sound data section the property enters decompress() once at most, and has
\* done so exactly when a spool is cached; on a short or malformed one every
\* entry failed and nothing is cached, so that the property enters
\* decompress() again only after a failure.
C4_OneSpoolAndRetryOnlyAfterFailure ==
    mardata.is_compressed =>
        /\ returned \subseteq {decompressed_fileobj.id}
        /\ returned # {} => decompressed_fileobj # None
        /\ Len(tempfiles) = decompress_calls
        /\ accessor_calls <= decompress_calls
        /\ decompressed_fileobj # None =>
              /\ decompressed_fileobj.id \in DOMAIN tempfiles
              /\ tempfiles[decompressed_fileobj.id] = "open"
        /\ SoundDataSection =>
              /\ accessor_calls <= 1
              /\ (accessor_calls = 1) <=> (decompressed_fileobj # None)
        /\ ~SoundDataSection =>
              /\ decompressed_fileobj = None
              /\ \A i \in DOMAIN tempfiles : tempfiles[i] = "dropped"

\* C4 witness: a compressed archive after an extract, a verify and a drained
\* generator, decompressed once.
C4_Witness ==
    /\ mardata.is_compressed /\ accessor_calls = 1 /\ decompress_calls = 1
    /\ returned = {1}
    /\ last.op = "verify" /\ last.ret = "True"
    /\ gens[1].st = "done"
    /\ fs.files # <<>>

\* a caller's own calls of decompress(): the entries the property did not make
DirectCalls == decompress_calls - accessor_calls

\* C5: on an uncompressed archive, whatever is called, the accessor only ever
\* returns the raw stream and never enters decompress(), and
\* _decompressed_fileobj stays None; accessor reads, extract_entry, extract and
\* verify never lead into decompress(), so that unless a caller calls
\* decompress() itself it is never entered and no temporary file is created.
C5_UncompressedUsesRawStream ==
    ~mardata.is_compressed =>
        /\ returned \subseteq {RawObj}
        /\ accessor_calls = 0
        /\ decompressed_fileobj = None
        /\ last.op = "fileobj" => last.ret = "ok" /\ last.obj = RawObj
        /\ last.op # "decompress" => EventsOf({"decompress"}) = {}
        /\ Len(tempfiles) = DirectCalls
        /\ DirectCalls = 0 => (decompress_calls = 0 /\ tempfiles = <<>>)

\* C5 witness: an uncompressed archive after an extract, a drained generator
\* and a verify, decompress() never entered.
C5_Witness ==
    /\ ~mardata.is_compressed
    /\ returned = {RawObj}
    /\ decompress_calls = 0 /\ tempfiles = <<>>
    /\ last.op = "verify" /\ last.ret = "True"
    /\ gens[1].st = "done"
    /\ fs.files # <<>>

\* C6 as claimed: once the reader is disposed of, no temporary spool it
\* created is still held open.
C6_SpoolReleasedOnDispose ==
    disposed => \A i \in DOMAIN tempfiles : tempfiles[i] # "open"

\* C7: a generator for an entry whose range lies within the stream, with
\* Decompression.none, drained with no other call in between, ends normally
\* and has yielded exactly the size bytes of the stream at the entry's offset.
C7_DrainedEntryIsTheSlice ==
    \A t \in GenIds :
        LET g == gens[t] IN
        (/\ g.st \in {"done", "err"} /\ g.mode = "none" /\ g.clean
         /\ HasStream
         /\ g.e.offset + g.e.size <= Len(FileData(Rd, g.obj))) =>
            /\ g.st = "done"
            /\ Len(Concat(g.out)) = g.e.size
            /\ Concat(g.out) = SubSeq(FileData(Rd, g.obj), g.e.offset + 1,
                                      g.e.offset + g.e.size)

\* C7 witness: a drained generator on a compressed archive that yielded an
\* entry of four bytes in two blocks.
C7_Witness ==
    /\ mardata.is_compressed
    /\ gens[1].st = "done" /\ gens[1].mode = "none" /\ gens[1].clean
    /\ gens[1].e.size = 4
    /\ Len(gens[1].out) = 2

\* the bytes the stream holds from the entry's offset on
Available(g) ==
    LET data == FileData(Rd, g.obj) IN
    IF g.e.offset >= Len(data) THEN <<>> ELSE SubSeq(data, g.e.offset + 1, Len(data))

\* C8 as claimed: a generator for an entry that reaches beyond the end of
\* the stream, drained with no other call in between, ends with the short-read
\* error, whatever the mode, having taken fewer than size bytes.
C8_ShortStreamEndsInShortRead ==
    \A t \in GenIds :
        LET g == gens[t] IN
        (/\ g.st \in {"done", "err"} /\ g.clean
         /\ HasStream
         /\ g.e.offset + g.e.size > Len(FileData(Rd, g.obj))) =>
            /\ g.st = "err"
            /\ g.err = "short_read"
            /\ g.p.total < g.e.size

\* C8 amended: a generator for an entry that reaches beyond the end of the stream,
\* drained with no other call in between, never ends normally: it ends with the
\* short-read error (or, under a per-entry codec, that codec's error if it
\* comes first), having taken fewer than size bytes; without a per-entry codec
\* what it yielded is exactly the bytes the stream had, nothing added.
C8_ShortStreamEndsInError ==
    \A t \in GenIds :
        LET g == gens[t] IN
        (/\ g.st \in {"done", "err"} /\ g.clean
         /\ HasStream
         /\ g.e.offset + g.e.size > Len(FileData(Rd, g.obj))) =>
            /\ g.st = "err"
            /\ g.err \in {"short_read", "codec"}
            /\ g.err = "codec" => g.mode \in {"auto", "bz2"}
            /\ g.p.total < g.e.size
            /\ g.mode \in {"none", "xz"} =>
                  /\ Concat(g.out) = Available(g)
                  /\ Len(Concat(g.out)) < g.e.size

\* C8 witness: a generator that yielded the two bytes the stream had of an
\* entry of four, and then ended with the short-read error.
C8_Witness ==
    /\ gens[1].st = "err" /\ gens[1].err = "short_read"
    /\ gens[1].mode = "none" /\ gens[1].clean
    /\ gens[1].e.size = 4
    /\ Len(Concat(gens[1].out)) = 2

\* a path at or below the destination directory
AtOrBelowDest(path) == IsPrefix(DestDir, path)

\* the name leaves the destination directory
Escapes(name) == ~Inside(normpath(name, DestDir), DestDir)

\* C9: whatever the index, extract creates no directory and opens no file
\* outside the destination directory: every directory made is the destination
\* or below it, every file opened is below it.
C9_ExtractStaysInsideDestDir ==
    /\ \A d \in fs.dirs : d = <<>> \/ AtOrBelowDest(d)
    /\ \A f \in DOMAIN fs.files : Inside(f, DestDir)
    /\ \A i \in DOMAIN last.log :
          /\ last.log[i].ev = "mkdir" => AtOrBelowDest(last.log[i].path)
          /\ last.log[i].ev = "open" => Inside(last.log[i].path, DestDir)

\* C9 witness: extract on an index that holds "../evil" after another entry
\* has ended with the rejection, the other entry's file written.
C9_Witness ==
    /\ last.op = "extract" /\ last.ret = "path_traversal"
    /\ \E i \in DOMAIN Entries : Entries[i].name = <<"..", "evil">>
    /\ fs.files # <<>>

IsOpen(ev) == ev.ev = "open"
IsMkdir(ev) == ev.ev = "mkdir"

\* the paths extract opened, in order
Opened_paths == LET o == SelectSeq(last.log, IsOpen) IN [i \in DOMAIN o |-> o[i].path]

\* the position of the first entry whose name leaves the destination
FirstEscaping ==
    CHOOSE k \in DOMAIN Entries :
        Escapes(Entries[k].name) /\ \A j \in 1..(k - 1) : ~Escapes(Entries[j].name)

\* C10 as claimed: when extract rejects an entry with the path-traversal
\* error, no file has been opened for writing.
C10_RejectedBeforeAnyWrite ==
    (last.op = "extract" /\ last.ret = "path_traversal") => EventsOf({"open"}) = {}

\* C10 amended: when the index holds a name that leaves the destination,
\* extract does not end normally; unless an earlier entry failed first, it
\* rejects the first such entry with the path-traversal error; and nothing is
\* created or opened for that entry or a later one: the files opened are those
\* of the entries before it, in index order.
C10_RejectedBeforeItsOwnWrite ==
    (last.op = "extract" /\ \E i \in DOMAIN Entries : Escapes(Entries[i].name)) =>
        LET k == FirstEscaping IN
        /\ last.ret \in {"path_traversal", "short_read", "codec", "OSError"}
        /\ Len(Opened_paths) <= k - 1
        /\ \A i \in DOMAIN Opened_paths :
              Opened_paths[i] = normpath(Entries[i].name, DestDir)
        /\ \A i \in DOMAIN last.log :
              IsMkdir(last.log[i]) =>
                  \E j \in 1..(k - 1) :
                      IsPrefix(last.log[i].path, normpath(Entries[j].name, DestDir))
        /\ last.ret = "path_traversal" => Len(Opened_paths) = k - 1
        /\ Len(Opened_paths) = k - 1 /\ last.ret # "path_traversal" => k > 1

\* C10 witness: the second entry is rejected after the first was written.
C10_Witness ==
    /\ last.op = "extract" /\ last.ret = "path_traversal"
    /\ Len(Entries) = 2 /\ ~Escapes(Entries[1].name) /\ Escapes(Entries[2].name)
    /\ Len(Opened_paths) = 1

\* the bytes behind the stream the accessor gives
StreamData == IF mardata.is_compressed THEN decompressed_fileobj.data ELSE raw_data

\* what draining entry e under mode yields from the stream: its blocks and how
\* it ends
Expected(e, mode) ==
    IF HasStream
    THEN Drain(StreamData, e.offset,
               Pipeline(e.size, CASE mode = "auto" -> "auto"
                                  [] mode = "bz2"  -> "bz2"
                                  [] OTHER         -> "pass"), <<>>)
    ELSE [pos |-> 0, p |-> Pipeline(e.size, "pass"), blocks |-> <<>>, st |-> "no_stream"]

\* the path entry i is written to
PathOf(i) == normpath(Entries[i].name, DestDir)

\* entry i cannot be extracted: its name leaves the destination, or its bytes
\* do not come out of the stream whole
Fails(i, mode) == Escapes(Entries[i].name) \/ Expected(Entries[i], mode).st # "done"

IsOpenOrClose(ev) == ev.ev \in {"open", "close"}
IsFsEvent(ev) == ev.ev \in {"mkdir", "open", "close"}

\* the index of the entry an event of extract's trace at position i belongs
\* to: one more than the files closed before it
EntryAt(i) == Cardinality({j \in 1..(i - 1) : last.log[j].ev = "close"}) + 1

\* the mode of the last extract call, read off the actions' parameter
ExtractMode == last.key

\* C11: extract works through the index in its stored order, one entry at a
\* time (each file is opened, written and closed before anything is made for
\* the next entry); it ends normally exactly when no entry fails; otherwise it
\* ends with the error of the first failing entry k, the files of the entries
\* before k hold their whole content, and no directory is made and no file
\* opened for an entry after k.
C11_ExtractInOrderAbortsAtFirstFailure ==
    (last.op = "extract") =>
        LET mode   == ExtractMode
            failing == {i \in DOMAIN Entries : Fails(i, mode)}
            k      == IF failing = {} THEN Len(Entries) + 1
                      ELSE CHOOSE i \in failing : \A j \in failing : i <= j
            oc     == SelectSeq(last.log, IsOpenOrClose)
        IN  /\ (last.ret = "ok") <=> (failing = {})
            /\ failing # {} =>
                  IF Escapes(Entries[k].name) THEN last.ret = "path_traversal"
                  ELSE IF HasStream THEN last.ret = Expected(Entries[k], mode).st
                  ELSE last.ret \in {"short_read", "codec"}
            \* one at a time, in index order
            /\ \A i \in DOMAIN oc :
                  /\ oc[i].ev = (IF i % 2 = 1 THEN "open" ELSE "close")
                  /\ oc[i].path = PathOf((i + 1) \div 2)
            /\ Len(oc) % 2 = 0
            \* nothing for an entry after k
            /\ \A i \in DOMAIN last.log :
                  IsFsEvent(last.log[i]) =>
                      /\ EntryAt(i) <= k /\ EntryAt(i) <= Len(Entries)
                      /\ IsPrefix(last.log[i].path, PathOf(EntryAt(i)))
            /\ Len(oc) = 2 * (IF k <= Len(Entries) /\ ~Escapes(Entries[k].name)
                              THEN k ELSE k - 1)
            \* the entries before k are written whole
            /\ \A j \in 1..(k - 1) :
                  /\ PathOf(j) \in DOMAIN fs.files
                  /\ fs.files[PathOf(j)] = Concat(Expected(Entries[j], mode).blocks)

\* C11 witness: the second of two entries runs beyond the stream; extract has
\* ended with the short-read error and the first entry's file holds its three
\* bytes.
C11_Witness ==
    /\ last.op = "extract" /\ last.ret = "short_read"
    /\ HasStream /\ Len(Entries) = 2
    /\ ~Fails(1, ExtractMode) /\ ~Escapes(Entries[2].name)
    /\ Len(fs.files[PathOf(1)]) = 3
    /\ PathOf(2) \in DOMAIN fs.files

\* what extract_entry(e, Decompression.none), drained now, gives on this reader
DrainedAsNone(e) == drain_entry(Rd, extract_entry(e, "none")).g

\* C12: a generator made with Decompression.xz and drained with no other call
\* in between has yielded, block for block, what a generator made with
\* Decompression.none yields for the same entry on the same stream, and has
\* ended the same way: no codec is applied to the entry's bytes.
C12_XzModeIsPassThrough ==
    \A t \in GenIds :
        LET g == gens[t] IN
        (g.mode = "xz" /\ g.st \in {"done", "err"} /\ g.clean /\ HasStream) =>
            /\ g.out = DrainedAsNone(g.e).out
            /\ g.st = DrainedAsNone(g.e).st
            /\ g.err = DrainedAsNone(g.e).err

\* C12 witness: an entry whose bytes open with the per-entry codec's magic,
\* drained under Decompression.xz, came out as stored.
C12_Witness ==
    /\ ~mardata.is_compressed
    /\ gens[1].mode = "xz" /\ gens[1].st = "done" /\ gens[1].clean
    /\ gens[1].e.offset = 1 /\ gens[1].e.size = 3
    /\ Concat(gens[1].out) = <<Bz2Magic, 1, 2>>

\* the generator has ended as draining its entry from the stream ends, having
\* yielded those blocks
OwnBytes(g) ==
    IF HasStream
    THEN /\ g.out = Expected(g.e, g.mode).blocks
         /\ g.st = (IF Expected(g.e, g.mode).st = "done" THEN "done" ELSE "err")
         /\ g.st = "err" => g.err = Expected(g.e, g.mode).st
    ELSE g.st = "err" /\ g.err \in {"short_read", "codec"} /\ g.out = <<>>

\* C13 as claimed: with every extraction inside one critical section, every
\* extraction that has ended yielded its own entry's bytes and the
\* extractions entered decompress() at most once.
C13_LockedOwnBytesDecompressOnce ==
    /\ \A t \in DOMAIN gens : gens[t].st \in {"done", "err"} => OwnBytes(gens[t])
    /\ accessor_calls <= 1

\* C13 amended: with every extraction inside one critical section, no
\* extraction is broken into, every extraction that has ended yielded its own
\* entry's bytes (or ended with the error its entry or the decompression
\* raises), the stream every generator reads is the one cached spool, and
\* the extractions' decompress() succeeded at most once: it was entered again
\* only after every earlier entry failed.
C13_LockedOwnBytesOneSpool ==
    /\ \A t \in DOMAIN gens :
          /\ gens[t].clean
          /\ gens[t].st \in {"done", "err"} => OwnBytes(gens[t])
          /\ (gens[t].st \in {"run", "done"} /\ mardata.is_compressed) =>
                 gens[t].obj = decompressed_fileobj.id
    /\ (mardata.is_compressed /\ SoundDataSection) =>
          /\ accessor_calls <= 1
          /\ (accessor_calls = 1) <=> (decompressed_fileobj # None)
    /\ (mardata.is_compressed /\ ~SoundDataSection) =>
          /\ decompressed_fileobj = None
          /\ \A i \in DOMAIN tempfiles : tempfiles[i] = "dropped"
    /\ ~mardata.is_compressed => accessor_calls = 0

\* C13 witness: on a compressed archive two callers have each drained a
\* different entry and the archive was decompressed once.
C13_Witness ==
    /\ mardata.is_compressed /\ accessor_calls = 1
    /\ gens[1].st = "done" /\ gens[2].st = "done"
    /\ gens[1].e # gens[2].e
    /\ gens[1].out # <<>> /\ gens[2].out # <<>>

IsRead(ev) == ev.ev = "read"

\* the blocks the last call read, in order
BlocksRead == LET rd == SelectSeq(last.log, IsRead) IN [i \in DOMAIN rd |-> rd[i].data]

\* the scan of the last verify call took place
Scanned == last.op = "verify" /\ HasSignatures /\ last.ret \in {"True", "False"}

\* C14: when verify reaches its scan, the signed range is read once, whatever
\* the number of records: the blocks read are those of one traversal of the
\* masked range; every block read is at once fed to every verifier, in list
\* order, so that every verifier was fed the same blocks in stream order, each
\* once; every verifier is built before the file object is asked for and
\* before the first block is read, and none is finalized before the last
\* block has been fed.
C14_OnePassFanOut ==
    Scanned =>
        LET n == Len(last.verifiers) IN
        /\ n = Len(Sigs)
        /\ BlocksRead = get_signature_data(StreamData, mardata.signatures.filesize).blocks
        /\ Concat(BlocksRead) = SignedBytes
        /\ \A v \in 1..n : last.verifiers[v].fed = BlocksRead
        /\ \A i \in DOMAIN last.log :
              IsRead(last.log[i]) =>
                  /\ i + n <= Len(last.log)
                  /\ \A v \in 1..n : last.log[i + v] = Ev("update", v, last.log[i].data)
        /\ Cardinality(EventsOf({"update"})) = n * Len(BlocksRead)
        /\ Cardinality(EventsOf({"make_verifier"})) = n
        /\ \A i \in EventsOf({"make_verifier"}) :
              \A j \in EventsOf(StreamEvents \cup VerifierEvents) : i < j
        /\ \A i \in EventsOf({"read", "update"}) :
              \A j \in EventsOf({"finalize_ok", "finalize_invalid"}) : i < j

\* C14 witness: verify with two records has read the signed range in two
\* blocks, fed both to both verifiers, and returned.
C14_Witness ==
    /\ Scanned /\ Len(last.verifiers) = 2
    /\ Len(BlocksRead) = 2
    /\ last.verifiers[2].fed = BlocksRead
    /\ Cardinality(EventsOf({"update"})) = 4

IsFinalize(ev) == ev.ev \in {"finalize_ok", "finalize_invalid"}

\* the verifiers the last call ran verify() on, in order
Finalized == LET f == SelectSeq(last.log, IsFinalize) IN [i \in DOMAIN f |-> f[i].i]

\* the verifiers of the last call that reject
Rejecting == {i \in DOMAIN last.verifiers : ~Accepts(last.verifiers[i])}

\* C15 as claimed: when verify reaches its final loop, verify() is run on
\* every verifier built, also after one of them has rejected.
C15_EveryVerifierFinalized ==
    Scanned => Len(Finalized) = Len(last.verifiers)

\* C15 amended: when verify reaches its final loop, verify() is run on the
\* verifiers in list order up to and including the first one that rejects,
\* and on none after it; it is run on every verifier exactly when none
\* rejects before the last.
C15_FinalizedUpToFirstRejection ==
    Scanned =>
        LET n == Len(last.verifiers)
            m == IF Rejecting = {} THEN n
                 ELSE CHOOSE i \in Rejecting : \A j \in Rejecting : i <= j
        IN  /\ Finalized = [i \in 1..m |-> i]
            /\ \A i \in EventsOf({"finalize_invalid"}) : i = Len(last.log)
            /\ (last.ret = "False") <=> (Rejecting # {})

\* C15 witness: of two verifiers the first has rejected; verify has returned
\* False with verify() run on the first only.
C15_Witness ==
    /\ Scanned /\ Len(last.verifiers) = 2
    /\ 1 \in Rejecting
    /\ Finalized = <<1>>
    /\ last.ret = "False"

DecompressErrors == {"short_read", "codec"}

\* the last call ended with the error of a failed decompression
FailedWith(errs) ==
    CASE last.op = "next" -> last.ret = "err" /\ \E t \in DOMAIN gens : gens[t].err \in errs
      [] OTHER            -> last.ret \in errs

\* C16: on a compressed archive whose data section is short or malformed,
\* every call that enters decompress() ends with the short-read or codec
\* error of the decompression, enters it once only, and leaves
\* _decompressed_fileobj unset with the temporary file let go of; the accessor
\* has never returned anything, and a spool that is cached holds the whole
\* decompressed data section.
C16_FailedDecompressPropagatesNothingCached ==
    /\ \A i, j \in EventsOf({"decompress"}) : i = j
    /\ (mardata.is_compressed /\ ~SoundDataSection) =>
          /\ decompressed_fileobj = None
          /\ returned = {}
          /\ \A i \in DOMAIN tempfiles : tempfiles[i] = "dropped"
          /\ EventsOf({"decompress"}) # {} => FailedWith(DecompressErrors)
          /\ last.op = "fileobj" =>
                /\ last.ret = (IF XzBad \in Range(raw_data) THEN "codec" ELSE "short_read")
                /\ Cardinality(EventsOf({"decompress"})) = 1
    /\ decompressed_fileobj # None =>
          /\ SoundDataSection
          /\ decompressed_fileobj.data =
                Zeros(mardata.data_offset)
                \o XzBytes(SubSeq(raw_data, mardata.data_offset + 1,
                                  mardata.data_offset + mardata.data_length))

\* C16 witness: the accessor has failed a second time on a data section
\* shorter than declared, with nothing cached.
C16_Witness ==
    /\ last.op = "fileobj" /\ last.ret = "short_read"
    /\ mardata.is_compressed
    /\ decompress_calls = 2
    /\ decompressed_fileobj = None

\* the raw bytes of the data section as the header declares it
DataSection ==
    SubSeq(raw_data, mardata.data_offset + 1, mardata.data_offset + mardata.data_length)

\* the last call was an access that decompressed and returned
FirstAccess ==
    last.op = "fileobj" /\ last.ret = "ok" /\ EventsOf({"decompress"}) # {}

\* C17: on a compressed archive with a sound data section the access that
\* decompresses succeeds wherever the raw stream stood, and when it returns
\* the spool is the cached object, stands at position 0, holds zeros below
\* data_offset and from data_offset on the decoded bytes of exactly the
\* data_length raw bytes that follow data_offset, and the raw stream stands
\* after the last block read for them.
C17_SpoolLayoutAfterFirstAccess ==
    /\ (last.op = "fileobj" /\ mardata.is_compressed /\ SoundDataSection) =>
          last.ret = "ok"
    /\ FirstAccess =>
          /\ mardata.is_compressed
          /\ last.obj = decompressed_fileobj.id
          /\ decompressed_fileobj.pos = 0
          /\ Len(decompressed_fileobj.data) >= mardata.data_offset
          /\ SubSeq(decompressed_fileobj.data, 1, mardata.data_offset)
                = Zeros(mardata.data_offset)
          /\ SubSeq(decompressed_fileobj.data, mardata.data_offset + 1,
                    Len(decompressed_fileobj.data)) = XzBytes(DataSection)
          /\ raw_pos = Min(Len(raw_data),
                           mardata.data_offset
                           + BlockSize * ((mardata.data_length + BlockSize - 1) \div BlockSize))

\* C17 witness: the first access on an archive whose data section is followed
\* by other bytes has returned the spool, the parser having left the raw
\* stream at its end.
C17_Witness ==
    /\ FirstAccess
    /\ decompress_calls = 1
    /\ mardata.data_offset + mardata.data_length < Len(raw_data)
    /\ Len(decompressed_fileobj.data) = mardata.data_offset + 2 * mardata.data_length

\* the reader's own state: the streams' positions, the cache, the spools
ReaderState ==
    <<raw_pos, decompressed_fileobj, tempfiles, decompress_calls, accessor_calls, returned>>

\* a generator was made in this step
Made == \E t \in DOMAIN gens : gens'[t].st = "new" /\ gens'[t] # gens[t]

\* a generator nothing has broken into has yielded the leading blocks of its
\* entry's drain, and all of them if it has ended, ending as that drain ends
YieldsOwnBlocks(g) ==
    /\ g.st = "new" => g.out = <<>>
    /\ (g.st = "run" /\ g.clean) =>
          /\ Len(g.out) <= Len(Expected(g.e, g.mode).blocks)
          /\ g.out = SubSeq(Expected(g.e, g.mode).blocks, 1, Len(g.out))
    /\ (g.st \in {"done", "err"} /\ g.clean) => OwnBytes(g)

AllYieldOwnBlocks == \A t \in DOMAIN gens : YieldsOwnBlocks(gens[t])

\* C18: a step that makes a generator leaves the reader as it was: no
\* decompression, no seek, no read, no access to the file object.  The bytes
\* behind the stream never change once there is a stream.  And at all
\* times a generator pulled with no other call in between has yielded the
\* blocks of its entry's range of the stream, which depend on the entry, the
\* mode and those bytes alone: not on where earlier calls left the stream, so
\* that extracting an entry again yields the same.
C18_LazyAndPositionIndependent ==
    /\ [][/\ Made => (UNCHANGED ReaderState /\ last'.log = <<>>)
          /\ HasStream => (HasStream' /\ StreamData' = StreamData)]_vars
    /\ []AllYieldOwnBlocks

\* C18 witness: after an extract that left the stream elsewhere, a generator's
\* first next() found the stream away from the entry's offset, moved it there
\* and yielded the entry's first block.
C18_Witness ==
    /\ last.op = "next" /\ gens[1].st = "run" /\ gens[1].clean
    /\ fs.files # <<>>
    /\ \E i \in EventsOf({"seek"}) :
          /\ last.log[i].data # <<last.log[i].i>>
          /\ last.log[i].data # <<Len(raw_data)>>
    /\ gens[1].out = <<Expected(gens[1].e, gens[1].mode).blocks[1]>>

====
